---- MODULE Spec2Model ----
(***************************************************************************)
(* swissknife: a terminal dashboard that runs a fixed set of shell         *)
(* commands, some once and some on a repeat interval.                      *)
(*                                                                         *)
(* The model covers the tview programs (cmd/onepage/main.go: the one-page  *)
(* program, lines 1-388, and the paged program, lines 800-1255; and the    *)
(* earlier draft src/unnamed/part_000): main's launch loop, one            *)
(* ExecuteCommand goroutine per command, the UI goroutine and its key      *)
(* handler, the context tree, the WaitGroup and the per-AppState mutex.    *)
(***************************************************************************)
EXTENDS Integers, Sequences, FiniteSets, TLC

(***************************************************************************)
(* Bounds of the model.                                                    *)
(***************************************************************************)
\* commands over all configuration files
MaxJobs == 2
\* configuration files (pages) given with -cfg
MaxPages == 2
\* executions of one command that the history counters tell apart
MaxRuns == 2

\* values of the yaml field "repeat": one-shot and a positive interval
RepeatVals == {0, 1}

Min(a, b) == IF a < b THEN a ELSE b

\* all sequences over S of length at most n
SeqsUpTo(S, n) == UNION {[1..k -> S] : k \in 0..n}

RECURSIVE SumLen(_)
SumLen(ss) == IF ss = <<>> THEN 0 ELSE Len(Head(ss)) + SumLen(Tail(ss))

\* strings.Split(filePaths, ","): at least one file; every file holds a list
\* of commands, given here by their repeat values. A file without commands
\* launches nothing: it is taken alone, the other lists are not empty.
Configs ==
    {c \in SeqsUpTo(SeqsUpTo(RepeatVals, MaxJobs), MaxPages) :
        /\ Len(c) >= 1
        /\ SumLen(c) <= MaxJobs
        /\ Len(c) > 1 => \A f \in 1..Len(c) : Len(c[f]) > 0}

(***************************************************************************)
(* Command values.                                                         *)
(***************************************************************************)
\* LoadCommandsFromYAML: Name, Command and Repeat come from the file, the
\* other fields keep Go's zero values
NewCommand(f, i, r) ==
    [Name |-> <<"name", f, i>>, Command |-> <<"sh", f, i>>, Repeat |-> r,
     Output |-> "", Status |-> "", IsRunning |-> FALSE]

\* what execCmd.Run() can give: err (nil or its text) and the captured text
\* (a command that ran to the end, one that exited non-zero after printing,
\* a shell that could not be started)
RunResults ==
    {[err |-> "nil", out |-> "out1"],
     [err |-> "exit status 1", out |-> "out2"],
     [err |-> "exec: not found", out |-> ""]}

\* a goroutine's err and outputBuf outside an iteration's use of them
NoResult == [err |-> "nil", out |-> ""]

VARIABLES
    build,      \* the program that runs
    files,      \* per file, the sequence of *Command (ids) loaded from it
    cmds,       \* the Command structs, by id
    groups,     \* per file, state.Groups (<<>> until the file is processed)
    cancelFuncs,\* per file, state.CancelFuncs: <<group, pane>> -> goroutine
    mu,         \* per file, state.Mu: 0 when free, else the holder
    ctxDone,    \* the parent context is cancelled
    children,   \* goroutines whose context is registered with the parent
    childDone,  \* per goroutine, its child context is cancelled
    wg,         \* the WaitGroup counter
    sched,      \* the goroutines launched so far: cmd, file, group, pane
    pc,         \* per goroutine, its position in ExecuteCommand
    res,        \* per goroutine, err and outputBuf of its last Run
    content,    \* per goroutine, the local variable content
    mainpc,     \* position of main
    cursor,     \* main's loop indices: file, group, pane
    uipc,       \* position of the goroutine that runs the TUI
    proc,       \* the process: running, exited or panicked
    nExec,      \* history: per goroutine, commands started (up to MaxRuns)
    nNotify,    \* history: per goroutine, QueueUpdateDraw calls (up to MaxRuns)
    sink,       \* history: per goroutine, the last content queued
    tick,       \* per goroutine, its ticker's channel holds a tick
    paginator,  \* the paginator made by main: total, current and its mutex
    calls       \* the callers of the paginator, and history: calls completed

vars == <<build, files, cmds, groups, cancelFuncs, mu, ctxDone, children,
          childDone, wg, sched, pc, res, content, mainpc, cursor, uipc, proc,
          nExec, nNotify, sink, tick, paginator, calls>>

(***************************************************************************)
(* GroupCommands                                                           *)
(***************************************************************************)
\* the number of non-repeating commands a group takes
NonRepeatingPerGroup == 2

\* mutant: the first loop tests cmd.Repeat >= 0
SplitRepeatingFromZero(commands) ==
    SelectSeq(commands, LAMBDA c : cmds[c].Repeat >= 0)

\* the first loop: the commands with Repeat > 0, in input order
SplitRepeating(commands) == SelectSeq(commands, LAMBDA c : cmds[c].Repeat > 0)

\* mutant: the first loop takes only Repeat = 0 as non-repeating
SplitNonRepeatingZero(commands) ==
    SelectSeq(commands, LAMBDA c : cmds[c].Repeat = 0)

\* the first loop: the other commands, in input order
SplitNonRepeating(commands) ==
    SelectSeq(commands, LAMBDA c : ~(cmds[c].Repeat > 0))

\* the second loop: one group per iteration, until both lists are empty
RECURSIVE PackGroups(_, _)

\* mutant: the inner loop starts at i := len(group.Repeating), a repeating
\* command counts against the two places of its group
PackGroupsShared(repeating, nonRepeating) ==
    IF Len(repeating) > 0 \/ Len(nonRepeating) > 0
    THEN LET used == IF Len(repeating) > 0 THEN 1 ELSE 0
             k == Min(NonRepeatingPerGroup - used, Len(nonRepeating))
             group ==
                 [Repeating |->
                      IF Len(repeating) > 0 THEN <<repeating[1]>> ELSE <<>>,
                  NonRepeating |-> SubSeq(nonRepeating, 1, k)]
         IN  <<group>> \o
             PackGroups(IF Len(repeating) > 0 THEN Tail(repeating)
                                              ELSE repeating,
                        SubSeq(nonRepeating, k + 1, Len(nonRepeating)))
    ELSE <<>>

PackGroups(repeating, nonRepeating) ==
    IF Len(repeating) > 0 \/ Len(nonRepeating) > 0
    THEN LET k == Min(NonRepeatingPerGroup, Len(nonRepeating))
             group ==
                 [Repeating |->
                      IF Len(repeating) > 0 THEN <<repeating[1]>> ELSE <<>>,
                  NonRepeating |-> SubSeq(nonRepeating, 1, k)]
         IN  <<group>> \o
             PackGroups(IF Len(repeating) > 0 THEN Tail(repeating)
                                              ELSE repeating,
                        SubSeq(nonRepeating, k + 1, Len(nonRepeating)))
    ELSE <<>>

GroupCommands(commands) ==
    PackGroups(SplitRepeating(commands), SplitNonRepeating(commands))

(***************************************************************************)
(* The paginator of the paged program.                                     *)
(***************************************************************************)
\* pages of a paginator taken alone
MaxTotal == 4
\* goroutines that call next and prev
MaxCallers == 2
\* calls of next, and of prev, that the history counters tell apart
MaxCalls == 3

Callers == 1..MaxCallers

\* Go's a % b on integers: the remainder of the truncated division, with
\* the sign of a
Rem(a, b) == IF a >= 0 THEN a % b ELSE 0 - ((0 - a) % b)

\* newPaginator(total): &paginator{total, current: 0, mu: &sync.Mutex{}}
newPaginator(total) == [total |-> total, current |-> 0, mu |-> 0]

\* p.current = (p.current + 1) % p.total
next(p) == [p EXCEPT !.current = Rem(p.current + 1, p.total)]

\* p.current = (p.current - 1 + p.total) % p.total
prev(p) == [p EXCEPT !.current = Rem(p.current - 1 + p.total, p.total)]

(***************************************************************************)
(* The initial state: the files are read, nothing is launched.             *)
(***************************************************************************)
\* the ids of the commands of file f: files are numbered in order
RECURSIVE FileIds(_, _)
FileIds(c, from) ==
    IF c = <<>> THEN <<>>
    ELSE <<[i \in 1..Len(Head(c)) |-> from + i]>>
         \o FileIds(Tail(c), from + Len(Head(c)))

\* the Command structs of configuration c, by id
RECURSIVE FileCmds(_, _)
FileCmds(c, f) ==
    IF f > Len(c) THEN <<>>
    ELSE [i \in 1..Len(c[f]) |-> NewCommand(f, i, c[f][i])] \o FileCmds(c, f + 1)

\* the state before main's first loop, for program b and configuration c
Start(b, c) ==
    /\ build = b
    /\ files = FileIds(c, 0)
    /\ cmds = FileCmds(c, 1)
    /\ groups = [f \in 1..Len(files) |-> <<>>]
    /\ cancelFuncs = [f \in 1..Len(files) |-> <<>>]
    /\ mu = [f \in 1..Len(files) |-> 0]
    /\ ctxDone = FALSE
    /\ children = {}
    /\ childDone = <<>>
    /\ wg = 0
    /\ sched = <<>>
    /\ pc = <<>>
    /\ res = <<>>
    /\ content = <<>>
    /\ mainpc = "load"
    /\ cursor = [file |-> 1, group |-> 1, pane |-> 1]
    /\ uipc = "idle"
    /\ proc = "running"
    /\ nExec = <<>>
    /\ nNotify = <<>>
    /\ sink = <<>>
    /\ tick = <<>>
    /\ paginator = newPaginator(Len(c))
    /\ calls = [at |-> [t \in Callers |-> "idle"],
                val |-> [t \in Callers |-> 0], next |-> 0, prev |-> 0]

\* cmd/onepage/main.go: the one-page program (one file) and the paged one
Init == \E c \in Configs : Start("main.go", c)

\* src/unnamed/part_000: one list of commands
InitDraft == \E c \in Configs : Len(c) = 1 /\ Start("part_000", c)

Goroutines == 1..Len(sched)

Alive == proc = "running"

(***************************************************************************)
(* main: per file GroupCommands and the AppState, then the launch loop.    *)
(***************************************************************************)
\* append(group.Repeating, group.NonRepeating...): the panes of a group in
\* launch order
LaunchList(group) == group.Repeating \o group.NonRepeating

\* the first position of the two nested range loops at or after (g, p)
RECURSIVE NextSlot(_, _, _)
NextSlot(gs, g, p) ==
    IF g > Len(gs) THEN <<0, 0>>
    ELSE IF p <= Len(LaunchList(gs[g])) THEN <<g, p>>
    ELSE NextSlot(gs, g + 1, 1)

\* the loop indices after position slot of file f; past the last group main
\* goes on to the next file
CursorAt(f, slot) ==
    IF slot = <<0, 0>> THEN [file |-> f + 1, group |-> 1, pane |-> 1]
    ELSE [file |-> f, group |-> slot[1], pane |-> slot[2]]

\* groups := GroupCommands(commands); state := &AppState{...}
ProcessFile ==
    /\ Alive
    /\ mainpc = "load"
    /\ cursor.file <= Len(files)
    /\ LET f == cursor.file
           gs == GroupCommands(files[f])
           slot == NextSlot(gs, 1, 1)
       IN  /\ groups' = [groups EXCEPT ![f] = gs]
           /\ cursor' = CursorAt(f, slot)
           /\ mainpc' = IF slot = <<0, 0>> THEN "load" ELSE "launch"
    /\ UNCHANGED <<build, files, cmds, cancelFuncs, mu, ctxDone, children,
                   childDone, wg, sched, pc, res, content, uipc, proc, nExec,
                   nNotify, sink, tick, paginator, calls>>

\* mutant: the launch loop without wg.Add(1)
WgAddMissing(w) == w

\* wg.Add(1)
WgAdd(w) == w + 1

\* mutant: the child context derived from context.Background()
WithCancelDetached(kids, g) == kids

\* context.WithCancel(ctx): the child is registered with the parent
WithCancel(kids, g) == kids \cup {g}

\* mutant: the key leaves out paneIndex
SetCancelFuncByGroup(m, key, g) ==
    [k \in DOMAIN m \cup {<<key[1], 0>>} |->
        IF k = <<key[1], 0>> THEN g ELSE m[k]]

\* state.CancelFuncs[[2]int{groupIndex, paneIndex}] = childCancel
SetCancelFunc(m, key, g) ==
    [k \in DOMAIN m \cup {key} |-> IF k = key THEN g ELSE m[k]]

\* one iteration of the inner launch loop: wg.Add, the child context, the
\* CancelFuncs entry and the go statement
Launch ==
    /\ Alive
    /\ mainpc = "launch"
    /\ LET f == cursor.file
           g == cursor.group
           p == cursor.pane
           id == Len(sched) + 1
           cmd == LaunchList(groups[f][g])[p]
           slot == NextSlot(groups[f], g, p + 1)
       IN  /\ wg' = WgAdd(wg)
           /\ children' = WithCancel(children, id)
           /\ childDone' = Append(childDone, ctxDone)
           /\ cancelFuncs' =
                  [cancelFuncs EXCEPT
                      ![f] = SetCancelFunc(@, <<g - 1, p - 1>>, id)]
           /\ sched' = Append(sched, [cmd |-> cmd, file |-> f,
                                      group |-> g - 1, pane |-> p - 1])
           /\ pc' = Append(pc, "select")
           /\ res' = Append(res, NoResult)
           /\ content' = Append(content, <<>>)
           /\ nExec' = Append(nExec, 0)
           /\ nNotify' = Append(nNotify, 0)
           /\ sink' = Append(sink, <<>>)
           /\ cursor' = CursorAt(f, slot)
           /\ mainpc' = IF slot = <<0, 0>> THEN "load" ELSE "launch"
    /\ UNCHANGED <<build, files, cmds, groups, mu, ctxDone, uipc, proc, tick,
                   paginator, calls>>

\* go func() { app.Run() ... }()
StartUI ==
    /\ Alive
    /\ mainpc = "load"
    /\ cursor.file > Len(files)
    /\ mainpc' = "wait"
    /\ uipc' = "run"
    /\ UNCHANGED <<build, files, cmds, groups, cancelFuncs, mu, ctxDone,
                   children, childDone, wg, sched, pc, res, content, cursor,
                   proc, nExec, nNotify, sink, tick, paginator, calls>>

\* mutant: the wait released one goroutine early
WaitUnblockedEarly(w) == w <= 1

\* wg.Wait() blocks until the counter is zero
WaitUnblocked(w) == w = 0

\* wg.Wait() returns
WaitReturn ==
    /\ Alive
    /\ mainpc = "wait"
    /\ WaitUnblocked(wg)
    /\ mainpc' = "returned"
    /\ UNCHANGED <<build, files, cmds, groups, cancelFuncs, mu, ctxDone,
                   children, childDone, wg, sched, pc, res, content, cursor,
                   uipc, proc, nExec, nNotify, sink, tick, paginator, calls>>

\* main returns after the last Println: the process ends
Exit ==
    /\ Alive
    /\ mainpc = "returned"
    /\ proc' = "exited"
    /\ UNCHANGED <<build, files, cmds, groups, cancelFuncs, mu, ctxDone,
                   children, childDone, wg, sched, pc, res, content, mainpc,
                   cursor, uipc, nExec, nNotify, sink, tick, paginator, calls>>

(***************************************************************************)
(* ExecuteCommand: the loop of one goroutine.                              *)
(***************************************************************************)
Inc(n) == Min(n + 1, MaxRuns)

\* mutant: the select without the case <-ctx.Done()
CtxNeverDone(g) == FALSE

\* case <-ctx.Done(): the select sees the goroutine's own child context
CtxDone(g) == childDone[g]

\* select { case <-ctx.Done(): return; default: ... } at the top of the loop;
\* the return runs the deferred wg.Done()
Select(g) ==
    /\ Alive
    /\ pc[g] = "select"
    /\ IF CtxDone(g)
       THEN /\ pc' = [pc EXCEPT ![g] = "exited"]
            /\ wg' = wg - 1
       ELSE /\ pc' = [pc EXCEPT ![g] = "exec"]
            /\ wg' = wg
    /\ UNCHANGED <<build, files, cmds, groups, cancelFuncs, mu, ctxDone,
                   children, childDone, sched, res, content, mainpc, cursor,
                   uipc, proc, nExec, nNotify, sink, tick, paginator, calls>>

\* exec.Command("sh", "-c", cmd.Command) and the start of execCmd.Run()
StartCmd(g) ==
    /\ Alive
    /\ pc[g] = "exec"
    /\ pc' = [pc EXCEPT ![g] = "running"]
    /\ nExec' = [nExec EXCEPT ![g] = Inc(@)]
    /\ UNCHANGED <<build, files, cmds, groups, cancelFuncs, mu, ctxDone,
                   children, childDone, wg, sched, res, content, mainpc,
                   cursor, uipc, proc, nNotify, sink, tick, paginator, calls>>

\* mutant: the command is started with exec.CommandContext(ctx, ...) and the
\* loop returns when the cancellation killed it
FinishCmdKilled(g) ==
    /\ Alive
    /\ pc[g] = "running"
    /\ IF childDone[g]
       THEN /\ pc' = [pc EXCEPT ![g] = "exited"]
            /\ wg' = wg - 1
            /\ res' = res
       ELSE /\ \E r \in RunResults : res' = [res EXCEPT ![g] = r]
            /\ pc' = [pc EXCEPT ![g] = "lock"]
            /\ wg' = wg
    /\ UNCHANGED <<build, files, cmds, groups, cancelFuncs, mu, ctxDone,
                   children, childDone, sched, content, mainpc, cursor,
                   uipc, proc, nExec, nNotify, sink, tick, paginator, calls>>

\* execCmd.Run() returns err, with the captured text in outputBuf
FinishCmd(g) ==
    /\ Alive
    /\ pc[g] = "running"
    /\ \E r \in RunResults : res' = [res EXCEPT ![g] = r]
    /\ pc' = [pc EXCEPT ![g] = "lock"]
    /\ UNCHANGED <<build, files, cmds, groups, cancelFuncs, mu, ctxDone,
                   children, childDone, wg, sched, content, mainpc, cursor,
                   uipc, proc, nExec, nNotify, sink, tick, paginator, calls>>

\* the mutex a goroutine was given: &state.Mu of its file's AppState
MuOf(g) == sched[g].file

\* mutant: mu.Lock() does not wait for the holder
MuFreeAlways(m, g) == TRUE

\* mutant: the mutex is taken before execCmd.Run() and held during the run
MuFreeNoRun(m, g) ==
    /\ m[MuOf(g)] = 0
    /\ \A h \in Goroutines : MuOf(h) = MuOf(g) => pc[h] # "running"

\* mu.Lock() blocks while the mutex is held
MuFree(m, g) == m[MuOf(g)] = 0

\* mu.Lock()
Lock(g) ==
    /\ Alive
    /\ pc[g] = "lock"
    /\ MuFree(mu, g)
    /\ mu' = [mu EXCEPT ![MuOf(g)] = g]
    /\ pc' = [pc EXCEPT ![g] = "write"]
    /\ UNCHANGED <<build, files, cmds, groups, cancelFuncs, ctxDone, children,
                   childDone, wg, sched, res, content, mainpc, cursor, uipc,
                   proc, nExec, nNotify, sink, tick, paginator, calls>>

\* status := "Completed"; if err != nil { status = "Failed" }
StatusOf(err) == IF err # "nil" THEN "Failed" ELSE "Completed"

\* the first assignment after mu.Lock(): cmd.Status = status in main.go,
\* cmd.Output = outputBuf.String() in part_000
FirstWrite(c, r) ==
    IF build = "part_000"
    THEN [c EXCEPT !.Output = r.out]
    ELSE [c EXCEPT !.Status = StatusOf(r.err)]

\* the second assignment: in main.go cmd.Status = err.Error() on an error and
\* cmd.Output = outputBuf.String() otherwise; cmd.Status = status in part_000
SecondWrite(c, r) ==
    IF build = "part_000"
    THEN [c EXCEPT !.Status = StatusOf(r.err)]
    ELSE IF r.err # "nil"
         THEN [c EXCEPT !.Status = r.err]
         ELSE [c EXCEPT !.Output = r.out]

\* fmt.Sprintf("Command: %s\nStatus: %s\nOutput:\n%s", ...)
Sprintf(c) == <<"Command: ", c.Command, "Status: ", c.Status, "Output:", c.Output>>

\* mutant: the goroutine reads the loop variable cmd instead of its argument
CmdOfLoopVar(g) == sched[Len(sched)].cmd

\* the *Command a goroutine was given
CmdOf(g) == sched[g].cmd

\* mutant: mu.Unlock() deferred to the end of the iteration
UnlockedLater(m, g) == m

\* mu.Unlock()
Unlocked(m, g) == [m EXCEPT ![MuOf(g)] = 0]

\* mutant: content := fmt.Sprintf(...) taken before the two assignments
WriteStaleContent(g) ==
    /\ Alive
    /\ pc[g] = "write"
    /\ cmds' = [cmds EXCEPT
                   ![CmdOf(g)] = SecondWrite(FirstWrite(@, res[g]), res[g])]
    /\ content' = [content EXCEPT ![g] = Sprintf(cmds[CmdOf(g)])]
    /\ res' = [res EXCEPT ![g] = NoResult]
    /\ mu' = Unlocked(mu, g)
    /\ pc' = [pc EXCEPT ![g] = "notify"]
    /\ UNCHANGED <<build, files, groups, cancelFuncs, ctxDone, children,
                   childDone, wg, sched, mainpc, cursor, uipc, proc, nExec,
                   nNotify, sink, tick, paginator, calls>>

\* the critical section after mu.Lock(): both assignments, content :=
\* fmt.Sprintf(...) and mu.Unlock()
Write(g) ==
    /\ Alive
    /\ pc[g] = "write"
    /\ cmds' = [cmds EXCEPT
                   ![CmdOf(g)] = SecondWrite(FirstWrite(@, res[g]), res[g])]
    /\ content' = [content EXCEPT ![g] = Sprintf(cmds'[CmdOf(g)])]
    /\ res' = [res EXCEPT ![g] = NoResult]
    /\ mu' = Unlocked(mu, g)
    /\ pc' = [pc EXCEPT ![g] = "notify"]
    /\ UNCHANGED <<build, files, groups, cancelFuncs, ctxDone, children,
                   childDone, wg, sched, mainpc, cursor, uipc, proc, nExec,
                   nNotify, sink, tick, paginator, calls>>

\* mutant: the test of cmd.Repeat off by one
RepeatsFromZero(c) == c.Repeat >= 0

\* mutant: the test of cmd.Repeat off by one the other way
RepeatsAboveOne(c) == c.Repeat > 1

\* if cmd.Repeat > 0 { time.Sleep(...) } else { return }
Repeats(c) == c.Repeat > 0

\* mutant: a repeating command that failed is retried at once, without the
\* sleep
NotifyRetryFailed(g) ==
    /\ Alive
    /\ pc[g] = "notify"
    /\ nNotify' = [nNotify EXCEPT ![g] = Inc(@)]
    /\ sink' = [sink EXCEPT ![g] = content[g]]
    /\ content' = [content EXCEPT ![g] = <<>>]
    /\ IF Repeats(cmds[CmdOf(g)])
       THEN /\ pc' = [pc EXCEPT ![g] =
                         IF cmds[CmdOf(g)].Status = "Completed"
                         THEN "sleep" ELSE "select"]
            /\ wg' = wg
       ELSE /\ pc' = [pc EXCEPT ![g] = "exited"]
            /\ wg' = wg - 1
    /\ UNCHANGED <<build, files, cmds, groups, cancelFuncs, mu, ctxDone,
                   children, childDone, sched, res, mainpc, cursor, uipc,
                   proc, nExec, tick, paginator, calls>>

\* app.QueueUpdateDraw(func() { output.SetText(content) }), then the test of
\* cmd.Repeat: sleep, or return and the deferred wg.Done()
Notify(g) ==
    /\ Alive
    /\ pc[g] = "notify"
    /\ nNotify' = [nNotify EXCEPT ![g] = Inc(@)]
    /\ sink' = [sink EXCEPT ![g] = content[g]]
    /\ content' = [content EXCEPT ![g] = <<>>]
    /\ IF Repeats(cmds[CmdOf(g)])
       THEN /\ pc' = [pc EXCEPT ![g] = "sleep"]
            /\ wg' = wg
       ELSE /\ pc' = [pc EXCEPT ![g] = "exited"]
            /\ wg' = wg - 1
    /\ UNCHANGED <<build, files, cmds, groups, cancelFuncs, mu, ctxDone,
                   children, childDone, sched, res, mainpc, cursor, uipc,
                   proc, nExec, tick, paginator, calls>>

\* time.Sleep returns: back to the top of the loop
Wake(g) ==
    /\ Alive
    /\ pc[g] = "sleep"
    /\ pc' = [pc EXCEPT ![g] = "select"]
    /\ UNCHANGED <<build, files, cmds, groups, cancelFuncs, mu, ctxDone,
                   children, childDone, wg, sched, res, content, mainpc,
                   cursor, uipc, proc, nExec, nNotify, sink, tick, paginator,
                   calls>>

(***************************************************************************)
(* The TUI goroutine and the key handler.                                  *)
(***************************************************************************)
\* cancel() of the parent context: the parent and every registered child
CancelChildren(done) == [g \in DOMAIN done |-> done[g] \/ g \in children]

\* case 'q': cancel(); app.Stop()
KeyQ ==
    /\ Alive
    /\ uipc = "run"
    /\ ctxDone' = TRUE
    /\ childDone' = CancelChildren(childDone)
    /\ uipc' = "stopped"
    /\ UNCHANGED <<build, files, cmds, groups, cancelFuncs, mu, children, wg,
                   sched, pc, res, content, mainpc, cursor, proc, nExec,
                   nNotify, sink, tick, paginator, calls>>

\* the application stops without q (tview stops on Ctrl-C)
AppStop ==
    /\ Alive
    /\ uipc = "run"
    /\ uipc' = "stopped"
    /\ UNCHANGED <<build, files, cmds, groups, cancelFuncs, mu, ctxDone,
                   children, childDone, wg, sched, pc, res, content, mainpc,
                   cursor, proc, nExec, nNotify, sink, tick, paginator, calls>>

\* app.Run() returns nil; cancel()
RunReturn ==
    /\ Alive
    /\ uipc = "stopped"
    /\ ctxDone' = TRUE
    /\ childDone' = CancelChildren(childDone)
    /\ uipc' = "done"
    /\ UNCHANGED <<build, files, cmds, groups, cancelFuncs, mu, children, wg,
                   sched, pc, res, content, mainpc, cursor, proc, nExec,
                   nNotify, sink, tick, paginator, calls>>

\* app.Run() returns an error; panic(err) ends the process
RunError ==
    /\ Alive
    /\ uipc = "run"
    /\ uipc' = "done"
    /\ proc' = "panicked"
    /\ UNCHANGED <<build, files, cmds, groups, cancelFuncs, mu, ctxDone,
                   children, childDone, wg, sched, pc, res, content, mainpc,
                   cursor, nExec, nNotify, sink, tick, paginator, calls>>

Next ==
    \/ ProcessFile
    \/ Launch
    \/ StartUI
    \/ WaitReturn
    \/ Exit
    \/ KeyQ
    \/ AppStop
    \/ RunReturn
    \/ RunError
    \/ \E g \in Goroutines : Select(g)
    \/ \E g \in Goroutines : StartCmd(g)
    \/ \E g \in Goroutines : FinishCmd(g)
    \/ \E g \in Goroutines : Lock(g)
    \/ \E g \in Goroutines : Write(g)
    \/ \E g \in Goroutines : Notify(g)
    \/ \E g \in Goroutines : Wake(g)

Spec == Init /\ [][Next]_vars

SpecDraft == InitDraft /\ [][Next]_vars

\* Scheduling: the Go runtime runs every runnable goroutine, a started
\* command ends, time.Sleep returns, and a goroutine blocked in mu.Lock()
\* gets the mutex (sync.Mutex hands it to a starving waiter).
GoStep(g) ==
    /\ g \in Goroutines
    /\ \/ Select(g)
       \/ StartCmd(g)
       \/ FinishCmd(g)
       \/ Write(g)
       \/ Notify(g)
       \/ Wake(g)

Fairness ==
    \A g \in 1..MaxJobs :
        /\ WF_vars(GoStep(g))
        /\ SF_vars(g \in Goroutines /\ Lock(g))

LiveSpec == Init /\ [][Next]_vars /\ Fairness

(***************************************************************************)
(* Properties.                                                             *)
(***************************************************************************)
\* the goroutine runs a command with Repeat <= 0 / Repeat > 0
OneShot(g) == ~(cmds[CmdOf(g)].Repeat > 0)
Repeating(g) == cmds[CmdOf(g)].Repeat > 0

\* C1: once wg.Wait() has returned, every launched goroutine has left
\* ExecuteCommand: none is executing a command and none can start one.
C1_WaitIsJoin ==
    mainpc = "returned" => \A g \in Goroutines : pc[g] = "exited"

\* C1 witness: the wait returned after a cancellation that ended a repeating
\* command which had run, next to another goroutine.
C1_Witness ==
    /\ mainpc = "returned"
    /\ ctxDone
    /\ Len(sched) >= 2
    /\ \E g \in Goroutines : Repeating(g) /\ nExec[g] >= 1

\* C2 as claimed: a one-shot command has run exactly once when its goroutine
\* has exited, under every interleaving with the cancellation.
C2_ExactlyOnce ==
    \A g \in Goroutines : OneShot(g) /\ pc[g] = "exited" => nExec[g] = 1

\* C2 amended: a one-shot command runs at most once; its goroutine exits after
\* that one run, or without any run when its first select saw the cancelled
\* context; after the run it is never at the top of the loop again.
C2_AtMostOnce ==
    \A g \in Goroutines :
        OneShot(g) =>
            /\ nExec[g] <= 1
            /\ pc[g] = "exited" => nExec[g] = 1 \/ (nExec[g] = 0 /\ CtxDone(g))
            /\ pc[g] \in {"select", "exec"} => nExec[g] = 0
            /\ pc[g] \in {"running", "lock", "write", "notify"} => nExec[g] = 1
            /\ pc[g] # "sleep"

\* C2 witness: a one-shot command ran once and its goroutine exited while the
\* cancellation had been triggered.
C2_Witness ==
    \E g \in Goroutines :
        OneShot(g) /\ pc[g] = "exited" /\ nExec[g] = 1 /\ ctxDone

\* C3: a repeating command is run again after every finished run, whatever
\* its result, unless the cancellation is triggered (or the process ends in
\* the TUI's panic); and only a cancelled context ends its goroutine.
C3_RepeatsUntilCancelled ==
    /\ \A g \in 1..MaxJobs :
           (g \in Goroutines /\ Repeating(g) /\ pc[g] = "notify")
               ~> ((g \in Goroutines /\ pc[g] = "running") \/ ctxDone \/ ~Alive)
    /\ [](\A g \in Goroutines :
              Repeating(g) /\ pc[g] = "exited" => CtxDone(g))

\* C3 witness: a repeating command runs again after a failed run, with no
\* cancellation.
C3_Witness ==
    \E g \in Goroutines :
        /\ Repeating(g)
        /\ pc[g] = "running"
        /\ nExec[g] = MaxRuns
        /\ cmds[CmdOf(g)].Status = "exit status 1"
        /\ ~ctxDone

\* C4: every command has at most one goroutine, exactly one once the launch
\* loops are over, and at most one execution of it is in flight.
C4_OneSchedulerPerJob ==
    \A j \in DOMAIN cmds :
        /\ Cardinality({g \in Goroutines : CmdOf(g) = j}) <= 1
        /\ mainpc \in {"wait", "returned"} =>
               Cardinality({g \in Goroutines : CmdOf(g) = j}) = 1
        /\ Cardinality({g \in Goroutines :
                           CmdOf(g) = j /\ pc[g] = "running"}) <= 1

\* C4 witness: two commands are in flight at once, one of them not for the
\* first time.
C4_Witness ==
    \E g, h \in Goroutines :
        /\ g # h
        /\ pc[g] = "running" /\ pc[h] = "running"
        /\ nExec[g] = MaxRuns

\* C5 as claimed: once the parent context is cancelled no goroutine starts a
\* command, from any position of its loop.
C5_NoStartAfterTrigger ==
    [][\A g \in Goroutines :
           ctxDone /\ pc[g] # "running" => pc'[g] # "running"]_vars

\* C5 amended: once the parent context is cancelled no goroutine takes the
\* default branch of its select again, and a command starts only in a
\* goroutine that had taken it before the cancellation.
C5_NoStartAfterObservedCancel ==
    [][\A g \in Goroutines :
           ctxDone =>
               /\ pc[g] # "exec" => pc'[g] # "exec"
               /\ pc[g] \notin {"exec", "running"} => pc'[g] # "running"]_vars

\* C5 witness: a repeating command that had run was found cancelled by its
\* goroutine, which exited.
C5_Witness ==
    \E g \in Goroutines :
        Repeating(g) /\ ctxDone /\ pc[g] = "exited" /\ nExec[g] = MaxRuns

\* a goroutine calls app.QueueUpdateDraw in this step
NotifyStep == \E g \in Goroutines : pc[g] = "notify" /\ pc'[g] # "notify"

\* C6: once the parent context is cancelled no goroutine calls
\* app.QueueUpdateDraw, not even one whose command was in flight.
C6_NoNotifyAfterTrigger == [][ctxDone => ~NotifyStep]_vars

\* C7: no goroutine calls app.QueueUpdateDraw after wg.Wait() has returned.
C7_NoNotifyAfterWait == [][mainpc = "returned" => ~NotifyStep]_vars

\* C7 witness: the wait returned after a cancellation, and updates had been
\* queued before by two goroutines.
C7_Witness ==
    /\ mainpc = "returned"
    /\ ctxDone
    /\ Len(sched) >= 2
    /\ \A g \in Goroutines : nNotify[g] >= 1

\* C8: one cancel() of the parent reaches the context of every goroutine:
\* once it is called, the context that each goroutine's select reads is done,
\* and every command of every file has such a goroutine.
C8_FanOut ==
    ctxDone =>
        /\ \A g \in Goroutines : CtxDone(g)
        /\ \A f \in 1..Len(files) :
               \A i \in 1..Len(files[f]) :
                   \E g \in Goroutines :
                       sched[g].cmd = files[f][i] /\ sched[g].file = f
                       /\ childDone[g]

\* C8 witness: two files, a goroutine for each, one repeating, and all of
\* them ended by the one cancellation.
C8_Witness ==
    /\ ctxDone
    /\ Len(files) >= 2
    /\ Len(sched) >= 2
    /\ \A g \in Goroutines : pc[g] = "exited"
    /\ \E g \in Goroutines : Repeating(g) /\ nExec[g] >= 1

\* the goroutines inside the critical section of mutex f
Writers(f) == {g \in Goroutines : pc[g] = "write" /\ sched[g].file = f}

\* the fields of its command that goroutine g last wrote are in place
OwnLastWrite(g) ==
    LET c == cmds[sched[g].cmd]
    IN  /\ pc[g] = "notify" => Sprintf(c) = content[g]
        /\ pc[g] \notin {"write", "notify"} /\ nNotify[g] >= 1 =>
               Sprintf(c) = sink[g]
        /\ pc[g] # "notify" /\ nNotify[g] = 0 =>
               c.Status = "" /\ c.Output = ""

\* C9 as claimed: at most one goroutine is between mu.Lock() and mu.Unlock()
\* at a time.
C9_OneWriterAtATime ==
    Cardinality({g \in Goroutines : pc[g] = "write"}) <= 1

\* C9 amended: per AppState (file), at most one goroutine is between
\* mu.Lock() and mu.Unlock(), it is the holder of that mutex, and every
\* command's fields are those its own goroutine wrote last.
C9_OneWriterPerMutex ==
    /\ \A f \in 1..Len(files) :
           /\ Cardinality(Writers(f)) <= 1
           /\ \A g \in Goroutines :
                  sched[g].file = f => (pc[g] = "write" <=> mu[f] = g)
    /\ \A g \in Goroutines : OwnLastWrite(g)

\* C9 witness: two goroutines of one file, one in the critical section and
\* one waiting in mu.Lock(), after an earlier write of each.
C9_Witness ==
    \E g, h \in Goroutines :
        /\ g # h
        /\ sched[g].file = sched[h].file
        /\ pc[g] = "write" /\ pc[h] = "lock"
        /\ nNotify[g] >= 1 /\ nNotify[h] >= 1

\* C10: a step of one goroutine changes nothing of another command and
\* nothing of another goroutine; of its own command it changes Status and
\* Output only; Name, Command and Repeat of every command stay as loaded.
C10_Frame ==
    [][\A g \in Goroutines :
           pc'[g] # pc[g] =>
               /\ \A j \in DOMAIN cmds :
                      /\ j # sched[g].cmd => cmds'[j] = cmds[j]
                      /\ cmds'[j].Name = cmds[j].Name
                      /\ cmds'[j].Command = cmds[j].Command
                      /\ cmds'[j].Repeat = cmds[j].Repeat
                      /\ cmds'[j].IsRunning = cmds[j].IsRunning
               /\ \A h \in Goroutines :
                      h # g => pc'[h] = pc[h] /\ res'[h] = res[h]
                               /\ content'[h] = content[h]]_vars

\* C10 witness: one command failed and the other, repeating, completed a
\* later run of its own.
C10_Witness ==
    \E g, h \in Goroutines :
        /\ g # h
        /\ cmds[sched[g].cmd].Status = "exit status 1"
        /\ cmds[sched[h].cmd].Status = "Completed"
        /\ nNotify[h] = MaxRuns
        /\ pc[h] = "sleep"

\* goroutine g leaves its critical section in this step: the fields of its
\* command are written from err and outputBuf of the run that just ended
WriteStep(g) == pc[g] = "write" /\ pc'[g] = "notify"

\* C11: after every execution, failed or not, the command's Output is the
\* text captured from that same execution.
C11_OutputOfSameRun ==
    [][\A g \in Goroutines :
           WriteStep(g) => cmds'[sched[g].cmd].Output = res[g].out]_vars

\* C12: every failed execution, a shell that could not be started or a
\* non-zero exit, leaves Status = "Failed" and a successful one "Completed";
\* the goroutine goes on to its update and the process keeps running.
C12_FailedOrCompleted ==
    [][\A g \in Goroutines :
           WriteStep(g) =>
               /\ cmds'[sched[g].cmd].Status =
                      IF res[g].err = "nil" THEN "Completed" ELSE "Failed"
               /\ proc' = "running"
               /\ mainpc' = mainpc]_vars

\* the goroutines that were given command j
SchedulersOf(j) == {g \in Goroutines : sched[g].cmd = j}

\* C13: Status is Pending from the creation of the command until its first
\* execution starts, Running while the command executes, and Completed or
\* Failed between an execution and the next.
C13_StatusMachine ==
    \A j \in DOMAIN cmds :
        /\ cmds[j].Status \in {"Pending", "Running", "Completed", "Failed"}
        /\ (\A g \in SchedulersOf(j) : nExec[g] = 0) =>
               cmds[j].Status = "Pending"
        /\ \A g \in SchedulersOf(j) :
               /\ pc[g] = "running" => cmds[j].Status = "Running"
               /\ pc[g] \in {"notify", "sleep"} =>
                      cmds[j].Status \in {"Completed", "Failed"}

(***************************************************************************)
(* GroupCommands alone: one list of commands of any mix of repeat values,  *)
(* grouped once by main.                                                   *)
(***************************************************************************)
\* the longest list of commands given to GroupCommands
MaxInput == 5

\* values of the yaml field "repeat" (an int): negative, zero, two intervals
GroupRepeatVals == {-1, 0, 3, 5}

\* commands, _ := LoadCommandsFromYAML(file); GroupCommands(commands)
InitGrouper ==
    \E c \in SeqsUpTo(GroupRepeatVals, MaxInput) : Start("main.go", <<c>>)

SpecGrouper == InitGrouper /\ [][ProcessFile]_vars

\* state.Groups of file f holds the result of GroupCommands
Grouped(f) == cursor.file > f \/ (cursor.file = f /\ mainpc = "launch")

\* the places of a []*Group: group, list and index
Places(gs) ==
    UNION {{<<k, l, i>> : i \in 1..Len(gs[k][l])} :
              <<k, l>> \in (1..Len(gs)) \X {"Repeating", "NonRepeating"}}

\* the *Command at a place
At(gs, p) == gs[p[1]][p[2]][p[3]]

\* the *Command values of a list
Members(commands) == {commands[i] : i \in 1..Len(commands)}

\* the Repeat values of a list of commands
RepeatsOf(commands) == [i \in 1..Len(commands) |-> cmds[commands[i]].Repeat]

\* C14: every command of the input list is at exactly one place of the
\* result, over all groups and both lists of each, and every place of the
\* result holds a command of the input.
C14_ExactlyOneGroup ==
    \A f \in 1..Len(files) :
        Grouped(f) =>
            /\ \A j \in Members(files[f]) :
                   Cardinality({p \in Places(groups[f]) :
                                   At(groups[f], p) = j}) = 1
            /\ \A p \in Places(groups[f]) :
                   At(groups[f], p) \in Members(files[f])

\* C14 witness: five commands, with negative, zero and positive repeat
\* values, grouped into three groups.
C14_Witness ==
    /\ Grouped(1)
    /\ Len(files[1]) = 5
    /\ {-1, 0, 3} \subseteq {cmds[j].Repeat : j \in Members(files[1])}
    /\ Len(groups[1]) = 3

\* C15: every group has at most one repeating and at most two non-repeating
\* members; Repeating holds only commands with Repeat > 0 and NonRepeating
\* only commands with Repeat <= 0.
C15_GroupShape ==
    \A f \in 1..Len(files) :
        Grouped(f) =>
            \A k \in 1..Len(groups[f]) :
                LET group == groups[f][k]
                IN  /\ Len(group.Repeating) <= 1
                    /\ Len(group.NonRepeating) <= 2
                    /\ \A i \in 1..Len(group.Repeating) :
                           cmds[group.Repeating[i]].Repeat > 0
                    /\ \A i \in 1..Len(group.NonRepeating) :
                           cmds[group.NonRepeating[i]].Repeat <= 0

\* C15 witness: a full group, one repeating command with a zero and a
\* negative one, followed by a group of two more commands.
C15_Witness ==
    /\ Grouped(1)
    /\ Len(groups[1]) = 2
    /\ Len(groups[1][1].Repeating) = 1
    /\ RepeatsOf(groups[1][1].NonRepeating) = <<0, -1>>
    /\ Len(groups[1][2].Repeating) = 1
    /\ Len(groups[1][2].NonRepeating) = 1

\* the positions of a list whose command has Repeat > 0
RepeatingAt(commands) ==
    {i \in 1..Len(commands) : cmds[commands[i]].Repeat > 0}

\* the command at the k-th (from 0) of the positions S, in input order
Nth(commands, S, k) ==
    commands[CHOOSE i \in S : Cardinality({j \in S : j < i}) = k]

\* C16: with r_0, r_1, ... the commands of the input with Repeat > 0 and
\* n_0, n_1, ... the others, both in input order, group k has r_k as its only
\* repeating member when it exists and n_2k, n_2k+1, those that exist, in
\* that order as its non-repeating members; every r_k and n_m has its group.
C16_StablePacking ==
    \A f \in 1..Len(files) :
        Grouped(f) =>
            LET c == files[f]
                R == RepeatingAt(c)
                N == (1..Len(c)) \ R
                gs == groups[f]
            IN  /\ Len(gs) >= Cardinality(R)
                /\ 2 * Len(gs) >= Cardinality(N)
                /\ \A k \in 0..(Len(gs) - 1) :
                       /\ gs[k + 1].Repeating =
                              IF k < Cardinality(R) THEN <<Nth(c, R, k)>>
                                                    ELSE <<>>
                       /\ gs[k + 1].NonRepeating =
                              [i \in 1..Min(2, Cardinality(N) - 2 * k) |->
                                  Nth(c, N, 2 * k + i - 1)]

\* C16 witness: the input [R1(5), N1, N2, N3, R2(3)] gives the groups
\* {[R1], [N1, N2]} and {[R2], [N3]}.
C16_Witness ==
    /\ Grouped(1)
    /\ RepeatsOf(files[1]) = <<5, 0, 0, 0, 3>>
    /\ groups[1] = <<[Repeating |-> <<files[1][1]>>,
                      NonRepeating |-> <<files[1][2], files[1][3]>>],
                     [Repeating |-> <<files[1][5]>>,
                      NonRepeating |-> <<files[1][4]>>]>>

\* the number of members of a group, over both lists
GroupSize(group) == Len(group.Repeating) + Len(group.NonRepeating)

\* C18: for R repeating and N non-repeating commands the result has exactly
\* max(R, ceil(N/2)) groups, none of them empty; no command gives no group;
\* only repeating commands give one group of one repeating command each;
\* only non-repeating commands give groups of two, the last one of one when
\* N is odd.
C18_GroupCount ==
    \A f \in 1..Len(files) :
        Grouped(f) =>
            LET c == files[f]
                R == Cardinality(RepeatingAt(c))
                N == Len(c) - R
                half == (N + 1) \div 2
                gs == groups[f]
            IN  /\ Len(gs) = IF R > half THEN R ELSE half
                /\ \A k \in 1..Len(gs) : GroupSize(gs[k]) >= 1
                /\ Len(c) = 0 => gs = <<>>
                /\ N = 0 =>
                       \A k \in 1..Len(gs) :
                           /\ Len(gs[k].Repeating) = 1
                           /\ gs[k].NonRepeating = <<>>
                /\ R = 0 =>
                       \A k \in 1..Len(gs) :
                           /\ gs[k].Repeating = <<>>
                           /\ Len(gs[k].NonRepeating) =
                                  IF k = Len(gs) /\ N % 2 = 1 THEN 1 ELSE 2

\* C18 witness: five non-repeating commands and no repeating one: two groups
\* of two and a last group of one.
C18_Witness ==
    /\ Grouped(1)
    /\ Len(files[1]) = 5
    /\ RepeatingAt(files[1]) = {}
    /\ Len(groups[1]) = 3
    /\ Len(groups[1][3].NonRepeating) = 1

(***************************************************************************)
(* The one-page program on a file whose repeat values include a negative   *)
(* one.                                                                    *)
(***************************************************************************)
\* values of the yaml field "repeat": negative, zero and a positive interval
SignedRepeatVals == {-1, 0, 1}

InitSigned ==
    \E c \in SeqsUpTo(SignedRepeatVals, MaxJobs) : Start("main.go", <<c>>)

SpecSigned == InitSigned /\ [][Next]_vars

\* command j is in a Repeating / NonRepeating list of state.Groups of file f
InRepeating(f, j) ==
    \E k \in 1..Len(groups[f]) : j \in Members(groups[f][k].Repeating)
InNonRepeating(f, j) ==
    \E k \in 1..Len(groups[f]) : j \in Members(groups[f][k].NonRepeating)

\* C19: a command with Repeat <= 0 is one-shot for both components:
\* GroupCommands puts it in a NonRepeating list and its goroutine exits after
\* its one execution and update, without sleeping; a command with Repeat > 0
\* is in a Repeating list and its goroutine sleeps after every update and
\* leaves the loop only on a cancelled context.
C19_OneShotConsistent ==
    /\ \A f \in 1..Len(files) :
           Grouped(f) =>
               \A j \in Members(files[f]) :
                   IF cmds[j].Repeat <= 0
                   THEN InNonRepeating(f, j) /\ ~InRepeating(f, j)
                   ELSE InRepeating(f, j) /\ ~InNonRepeating(f, j)
    /\ \A g \in Goroutines :
           IF cmds[sched[g].cmd].Repeat <= 0
           THEN /\ pc[g] # "sleep"
                /\ nExec[g] <= 1
                /\ nNotify[g] = nExec[g] => pc[g] \in {"select", "exec", "exited"}
                /\ nNotify[g] = 1 => pc[g] = "exited"
           ELSE /\ pc[g] = "exited" => childDone[g]
                /\ nNotify[g] >= 1 /\ ~childDone[g] =>
                       pc[g] \in {"sleep", "select", "exec", "running", "lock",
                                  "write", "notify"}

\* C19 witness: a command with a negative repeat value ran once and its
\* goroutine exited, while a command with a positive one is running again.
C19_Witness ==
    \E g, h \in Goroutines :
        /\ cmds[sched[g].cmd].Repeat < 0
        /\ pc[g] = "exited" /\ nExec[g] = 1 /\ nNotify[g] = 1
        /\ cmds[sched[h].cmd].Repeat > 0
        /\ pc[h] = "running" /\ nExec[h] = MaxRuns
        /\ ~ctxDone

\* the order of the positions of one iteration of the loop of ExecuteCommand
\* for a command with Repeat > 0: the run, the write under the mutex, the
\* update, the sleep, and the select that starts the next iteration or returns
LoopOrder ==
    {<<"select", "exec">>, <<"exec", "running">>, <<"running", "lock">>,
     <<"lock", "write">>, <<"write", "notify">>, <<"notify", "sleep">>,
     <<"sleep", "select">>, <<"select", "exited">>}

\* C20: for a command with Repeat > 0, between the end of one execution and
\* the start of the next there are exactly one write of the command's
\* fields, one QueueUpdateDraw and one time.Sleep that ran to its end, in
\* that order, whatever the result of the execution: the goroutine moves
\* only along the loop, the fields change only in the write, an update is
\* queued only in the notification, and the only way out of the sleep is the
\* top of the loop.
C20_SleepBetweenRuns ==
    [][\A g \in Goroutines :
           cmds[sched[g].cmd].Repeat > 0 =>
               /\ pc'[g] # pc[g] => <<pc[g], pc'[g]>> \in LoopOrder
               /\ cmds'[sched[g].cmd] # cmds[sched[g].cmd] => WriteStep(g)
               /\ (nNotify'[g] # nNotify[g] \/ sink'[g] # sink[g]) =>
                      pc[g] = "notify" /\ pc'[g] = "sleep"]_vars

\* C20 witness: a repeating command whose run failed to start is run again,
\* after the write, the update and the sleep.
C20_Witness ==
    \E g \in Goroutines :
        /\ cmds[sched[g].cmd].Repeat > 0
        /\ cmds[sched[g].cmd].Status = "exec: not found"
        /\ pc[g] = "running"
        /\ nExec[g] = MaxRuns
        /\ nNotify[g] >= 1

(***************************************************************************)
(* Shutdown.                                                               *)
(***************************************************************************)
\* a step of main
MainStep == ProcessFile \/ Launch \/ StartUI \/ WaitReturn \/ Exit

\* Scheduling of the whole program: the goroutines of the commands as in
\* LiveSpec, main, and the goroutine of the TUI, whose app.Run() returns once
\* the application was stopped.
LiveMainSpec ==
    Init /\ [][Next]_vars /\ Fairness /\ WF_vars(MainStep) /\ WF_vars(RunReturn)

C22_NotifyUnlocked ==
    \A g \in Goroutines :
        pc[g] = "notify" =>
            /\ mu[sched[g].file] # g
            /\ content[g] # <<>>

\* C22 witness: one goroutine is about to queue its update while another
\* goroutine of the same file is inside the critical section.
C22_Witness ==
    \E g, h \in Goroutines :
        /\ g # h
        /\ sched[g].file = sched[h].file
        /\ pc[g] = "notify"
        /\ pc[h] = "write"
        /\ mu[sched[h].file] = h

\* C23: a goroutine that is sleeping when its context is cancelled leaves the
\* sleep by exiting; it does not stay until time.Sleep returns at the end of
\* the interval.
C23_SleepInterruptible ==
    [][\A g \in Goroutines :
           pc[g] = "sleep" /\ childDone[g] /\ pc'[g] # pc[g] =>
               pc'[g] = "exited"]_vars

\* C24: a cancellation does not abort a command in flight: execCmd.Run()
\* returns with a result of the command itself, the goroutine takes the
\* mutex and writes the status of that run under it, and it does not take
\* the default branch of its select again; with commands that terminate the
\* goroutine then exits.
C24_InFlightCompletes ==
    /\ [][\A g \in Goroutines :
              childDone[g] =>
                  /\ pc[g] = "running" /\ pc'[g] # pc[g] =>
                         pc'[g] = "lock" /\ res'[g] \in RunResults
                  /\ pc[g] = "lock" /\ pc'[g] # pc[g] =>
                         pc'[g] = "write" /\ mu'[sched[g].file] = g
                  /\ WriteStep(g) =>
                         /\ mu[sched[g].file] = g
                         /\ cmds'[sched[g].cmd].Status # ""
                         /\ cmds'[sched[g].cmd].Status = "Completed"
                                <=> res[g].err = "nil"
                  /\ pc[g] # "exec" => pc'[g] # "exec"]_vars
    /\ \A g \in 1..MaxJobs :
           (g \in Goroutines /\ childDone[g] /\ pc[g] = "running")
               ~> (g \in Goroutines /\ pc[g] = "exited")

\* C24 witness: after the cancellation a repeating command that was in
\* flight has ended with an error and its goroutine is writing the result.
C24_Witness ==
    \E g \in Goroutines :
        /\ childDone[g]
        /\ Repeating(g)
        /\ pc[g] = "write"
        /\ res[g].err = "exit status 1"
        /\ nExec[g] = MaxRuns

\* the goroutines launched for the commands of file f
LaunchedOf(f) == {g \in Goroutines : sched[g].file = f}

\* the key of a goroutine in state.CancelFuncs: [2]int{groupIndex, paneIndex}
KeyOf(g) == <<sched[g].group, sched[g].pane>>

\* C25: the CancelFuncs map of a file holds one entry per launched command,
\* under pairwise distinct keys (groupIndex, paneIndex), each holding the
\* cancel function made for that command's goroutine: it is there from the
\* launch on and no later step changes the map; after the launch loop the
\* map has one entry per command of the file.
C25_CancelFuncs ==
    \A f \in 1..Len(files) :
        /\ DOMAIN cancelFuncs[f] = {KeyOf(g) : g \in LaunchedOf(f)}
        /\ \A g \in LaunchedOf(f) : cancelFuncs[f][KeyOf(g)] = g
        /\ \A g, h \in LaunchedOf(f) : g # h => KeyOf(g) # KeyOf(h)
        /\ cursor.file > f =>
               /\ Cardinality(DOMAIN cancelFuncs[f]) = Len(files[f])
               /\ \A j \in Members(files[f]) :
                      \E g \in LaunchedOf(f) : sched[g].cmd = j

\* C25 witness: the launch is over and the map of a file has two entries of
\* one group, while their goroutines have run and one has exited.
C25_Witness ==
    /\ mainpc = "wait"
    /\ DOMAIN cancelFuncs[1] = {<<0, 0>>, <<0, 1>>}
    /\ \E g \in Goroutines : pc[g] = "exited" /\ nExec[g] = 1
    /\ \E g \in Goroutines : pc[g] = "sleep"

(***************************************************************************)
(* CreateGroupedFlex and the launch loop, on one list of commands of any   *)
(* mix of repeat values.                                                   *)
(***************************************************************************)
\* tview.NewTextView() with its title and border colour, for command c
NewTextView(kind, colour, c) ==
    [title |-> <<kind, cmds[c].Name>>, border |-> colour]

\* the TextViews of one group: state.TextViews[groupIndex] starts empty and
\* gets one view per command of group.Repeating, then one per command of
\* group.NonRepeating
GroupTextViews(group) ==
    [i \in 1..Len(group.Repeating) |->
        NewTextView("Repeating: ", "green", group.Repeating[i])]
    \o [i \in 1..Len(group.NonRepeating) |->
           NewTextView("Non-Repeating: ", "blue", group.NonRepeating[i])]

\* mutant: the row of the non-repeating commands is built first
CreateGroupedFlexRowFirst(gs) ==
    [k \in 1..Len(gs) |->
        [i \in 1..Len(gs[k].NonRepeating) |->
            NewTextView("Non-Repeating: ", "blue", gs[k].NonRepeating[i])]
        \o [i \in 1..Len(gs[k].Repeating) |->
               NewTextView("Repeating: ", "green", gs[k].Repeating[i])]]

\* state.TextViews after CreateGroupedFlex(state), which main calls before
\* its launch loop and which is the only code that writes it
CreateGroupedFlex(gs) == [k \in 1..Len(gs) |-> GroupTextViews(gs[k])]

SpecLaunch == InitGrouper /\ [][ProcessFile \/ Launch]_vars

\* the place of command j in its group of gs, counted as the claim does: the
\* repeating member first, then the non-repeating ones in the order in which
\* they were taken
SlotOf(gs, k, j) ==
    IF j \in Members(gs[k].Repeating)
    THEN CHOOSE i \in 1..Len(gs[k].Repeating) : gs[k].Repeating[i] = j
    ELSE Len(gs[k].Repeating)
         + (CHOOSE i \in 1..Len(gs[k].NonRepeating) :
                gs[k].NonRepeating[i] = j)

\* C26: for every launched command the indices (groupIndex, paneIndex) given
\* to its goroutine are in range of state.TextViews, paneIndex numbers the
\* repeating member first and then the non-repeating ones, and the view at
\* that index is the one created for that command.
C26_PaneOfJob ==
    \A g \in Goroutines :
        LET gs == groups[sched[g].file]
            views == CreateGroupedFlex(gs)
            k == sched[g].group + 1
            p == sched[g].pane + 1
            j == sched[g].cmd
        IN  /\ k \in 1..Len(views)
            /\ p \in 1..Len(views[k])
            /\ j \in Members(gs[k].Repeating) \cup Members(gs[k].NonRepeating)
            /\ p = SlotOf(gs, k, j)
            /\ views[k][p].title =
                   <<IF cmds[j].Repeat > 0 THEN "Repeating: "
                                           ELSE "Non-Repeating: ",
                     cmds[j].Name>>

\* C26 witness: all five commands of [R1, N1, N2, N3, R2] are launched, the
\* last one at slot 1 of the second group.
C26_Witness ==
    /\ RepeatsOf(files[1]) = <<5, 0, 0, 0, 3>>
    /\ Len(sched) = 5
    /\ sched[5] = [cmd |-> files[1][4], file |-> 1, group |-> 1, pane |-> 1]

(***************************************************************************)
(* A command that never terminates.                                        *)
(***************************************************************************)
\* the goroutine whose command hangs: execCmd.Run() does not return
Hung == 1

NextHung ==
    \/ ProcessFile
    \/ Launch
    \/ StartUI
    \/ WaitReturn
    \/ Exit
    \/ KeyQ
    \/ AppStop
    \/ RunReturn
    \/ RunError
    \/ \E g \in Goroutines : Select(g)
    \/ \E g \in Goroutines : StartCmd(g)
    \/ \E g \in Goroutines \ {Hung} : FinishCmd(g)
    \/ \E g \in Goroutines : Lock(g)
    \/ \E g \in Goroutines : Write(g)
    \/ \E g \in Goroutines : Notify(g)
    \/ \E g \in Goroutines : Wake(g)

\* Scheduling as in LiveMainSpec, but nothing ends the command of Hung.
FairnessHung ==
    \A g \in 1..MaxJobs :
        /\ WF_vars(GoStep(g) /\ ~(g = Hung /\ pc[g] = "running"))
        /\ SF_vars(g \in Goroutines /\ Lock(g))

HungSpec ==
    Init /\ [][NextHung]_vars /\ FairnessHung
    /\ WF_vars(MainStep) /\ WF_vars(RunReturn)

\* C27: while the command of one goroutine hangs, wg.Wait() does not return
\* and main does not end the process, whatever the cancellation; every other
\* goroutine still exits once its context is cancelled, also when it has to
\* take the mutex of the same file.
C27_HungJob ==
    /\ [](Hung \in Goroutines /\ pc[Hung] = "running" =>
              mainpc # "returned" /\ proc # "exited")
    /\ [][(Hung \in Goroutines /\ pc[Hung] = "running") =>
              (pc'[Hung] = "running")]_vars
    /\ \A g \in (1..MaxJobs) \ {Hung} :
           (g \in Goroutines /\ childDone[g])
               ~> (g \in Goroutines /\ pc[g] = "exited")

\* C27 witness: the command of Hung is in flight after the cancellation,
\* main is in wg.Wait(), and another goroutine of the same file has run,
\* written its result and exited.
C27_Witness ==
    /\ Len(sched) >= 2
    /\ pc[Hung] = "running"
    /\ ctxDone
    /\ mainpc = "wait"
    /\ \E g \in Goroutines :
           /\ g # Hung
           /\ sched[g].file = sched[Hung].file
           /\ pc[g] = "exited"
           /\ nNotify[g] >= 1

\* every command of the configuration is one-shot
AllOneShot == \A j \in DOMAIN cmds : ~(cmds[j].Repeat > 0)

\* C30: main waits for the goroutines of the commands only: when every
\* command is one-shot (and terminates) the process ends, by main's return
\* after the last goroutine unless the TUI ended it before, with or without
\* a cancellation; when a command repeats, wg.Wait() does not return before
\* the cancellation was triggered.
C30_WaitsForSchedulersOnly ==
    /\ AllOneShot ~> ~Alive
    /\ [](Alive /\ mainpc = "wait" /\ (\A g \in Goroutines : pc[g] = "exited")
              => ENABLED WaitReturn)
    /\ [](~AllOneShot /\ mainpc = "returned" => ctxDone)

\* C30 witness: two one-shot commands have run, main has returned and the
\* process has ended while the TUI was running and nothing was cancelled.
C30_Witness ==
    /\ AllOneShot
    /\ Len(sched) = 2
    /\ \A g \in Goroutines : nExec[g] = 1 /\ pc[g] = "exited"
    /\ proc = "exited"
    /\ uipc = "run"
    /\ ~ctxDone

(***************************************************************************)
(* The ticker-driven program (src/Makefile): RunCommand, executeCommand,   *)
(* RefreshDisplay and its main.                                            *)
(***************************************************************************)
\* commands := []*Command{...}: one list of commands, no file is read
InitTicker == \E c \in Configs : Len(c) = 1 /\ Start("Makefile", c)

\* the holder of the mutex while RefreshDisplay prints
DisplayHolder == -1

\* wg.Add(1); go RunCommand(ctx, cmd, &wg, &mu): one iteration of the two
\* inner loops, the repeating command of a group before the others
GoRunCommand ==
    /\ Alive
    /\ build = "Makefile"
    /\ mainpc = "launch"
    /\ LET f == cursor.file
           g == cursor.group
           p == cursor.pane
           cmd == LaunchList(groups[f][g])[p]
           slot == NextSlot(groups[f], g, p + 1)
       IN  /\ wg' = WgAdd(wg)
           /\ sched' = Append(sched, [cmd |-> cmd, file |-> f,
                                      group |-> g - 1, pane |-> p - 1])
           /\ pc' = Append(pc, "start")
           /\ res' = Append(res, NoResult)
           /\ nExec' = Append(nExec, 0)
           /\ tick' = Append(tick, FALSE)
           /\ cursor' = CursorAt(f, slot)
           /\ mainpc' = IF slot = <<0, 0>> THEN "load" ELSE "launch"
    /\ UNCHANGED <<build, files, cmds, groups, cancelFuncs, mu, ctxDone,
                   children, childDone, content, uipc, proc, nNotify, sink,
                   paginator, calls>>

\* go RefreshDisplay(ctx, groups, &mu); main then blocks in <-signalChan
GoRefreshDisplay ==
    /\ Alive
    /\ mainpc = "load"
    /\ cursor.file > Len(files)
    /\ mainpc' = "signal"
    /\ uipc' = "run"
    /\ UNCHANGED <<build, files, cmds, groups, cancelFuncs, mu, ctxDone,
                   children, childDone, wg, sched, pc, res, content, cursor,
                   proc, nExec, nNotify, sink, tick, paginator, calls>>

\* <-signalChan returns (SIGINT or SIGTERM); cancel()
Shutdown ==
    /\ Alive
    /\ mainpc = "signal"
    /\ ctxDone' = TRUE
    /\ mainpc' = "wait"
    /\ UNCHANGED <<build, files, cmds, groups, cancelFuncs, mu, children,
                   childDone, wg, sched, pc, res, content, cursor, uipc, proc,
                   nExec, nNotify, sink, tick, paginator, calls>>

\* the entry of RunCommand: time.NewTicker for a repeating command, the one
\* call of executeCommand otherwise
RunCommand(g) ==
    /\ Alive
    /\ pc[g] = "start"
    /\ pc' = [pc EXCEPT ![g] =
                 IF Repeats(cmds[CmdOf(g)]) THEN "select" ELSE "exec"]
    /\ UNCHANGED <<build, files, cmds, groups, cancelFuncs, mu, ctxDone,
                   children, childDone, wg, sched, res, content, mainpc,
                   cursor, uipc, proc, nExec, nNotify, sink, tick, paginator,
                   calls>>

\* the ticker of a repeating command sends on ticker.C (capacity one: a tick
\* that finds the channel full is dropped)
TickerC(g) ==
    /\ Alive
    /\ Repeats(cmds[CmdOf(g)])
    /\ pc[g] \notin {"start", "exited"}
    /\ ~tick[g]
    /\ tick' = [tick EXCEPT ![g] = TRUE]
    /\ UNCHANGED <<build, files, cmds, groups, cancelFuncs, mu, ctxDone,
                   children, childDone, wg, sched, pc, res, content, mainpc,
                   cursor, uipc, proc, nExec, nNotify, sink, paginator, calls>>

\* select { case <-ctx.Done(): return; case <-ticker.C: executeCommand(...) }:
\* the select blocks until a case is ready and takes any one of the ready
\* cases; the return runs the deferred ticker.Stop() and wg.Done()
RunCommandSelect(g) ==
    /\ Alive
    /\ build = "Makefile"
    /\ pc[g] = "select"
    /\ \/ /\ ctxDone
          /\ pc' = [pc EXCEPT ![g] = "exited"]
          /\ wg' = wg - 1
          /\ tick' = tick
       \/ /\ tick[g]
          /\ pc' = [pc EXCEPT ![g] = "exec"]
          /\ wg' = wg
          /\ tick' = [tick EXCEPT ![g] = FALSE]
    /\ UNCHANGED <<build, files, cmds, groups, cancelFuncs, mu, ctxDone,
                   children, childDone, sched, res, content, mainpc, cursor,
                   uipc, proc, nExec, nNotify, sink, paginator, calls>>

\* cmd.Output = outputBuf.String(); cmd.Status = status
UpdateCommand(c, r) == [c EXCEPT !.Output = r.out, !.Status = StatusOf(r.err)]

\* the critical section of executeCommand and its return into RunCommand:
\* back to the select of a repeating command, or the end of RunCommand and
\* the deferred wg.Done()
ExecuteCommandUpdate(g) ==
    /\ Alive
    /\ build = "Makefile"
    /\ pc[g] = "write"
    /\ cmds' = [cmds EXCEPT ![CmdOf(g)] = UpdateCommand(@, res[g])]
    /\ res' = [res EXCEPT ![g] = NoResult]
    /\ mu' = Unlocked(mu, g)
    /\ IF Repeats(cmds[CmdOf(g)])
       THEN /\ pc' = [pc EXCEPT ![g] = "select"]
            /\ wg' = wg
       ELSE /\ pc' = [pc EXCEPT ![g] = "exited"]
            /\ wg' = wg - 1
    /\ UNCHANGED <<build, files, groups, cancelFuncs, ctxDone, children,
                   childDone, sched, content, mainpc, cursor, uipc, proc,
                   nExec, nNotify, sink, tick, paginator, calls>>

\* RefreshDisplay, case <-ticker.C: mu.Lock() before a command is printed
RefreshDisplayLock ==
    /\ Alive
    /\ uipc = "run"
    /\ mu[1] = 0
    /\ mu' = [mu EXCEPT ![1] = DisplayHolder]
    /\ uipc' = "print"
    /\ UNCHANGED <<build, files, cmds, groups, cancelFuncs, ctxDone, children,
                   childDone, wg, sched, pc, res, content, mainpc, cursor,
                   proc, nExec, nNotify, sink, tick, paginator, calls>>

\* RefreshDisplay: mu.Unlock() after the fmt.Printf
RefreshDisplayUnlock ==
    /\ Alive
    /\ uipc = "print"
    /\ mu' = [mu EXCEPT ![1] = 0]
    /\ uipc' = "run"
    /\ UNCHANGED <<build, files, cmds, groups, cancelFuncs, ctxDone, children,
                   childDone, wg, sched, pc, res, content, mainpc, cursor,
                   proc, nExec, nNotify, sink, tick, paginator, calls>>

\* RefreshDisplay, case <-ctx.Done(): return
RefreshDisplayReturn ==
    /\ Alive
    /\ uipc = "run"
    /\ ctxDone
    /\ uipc' = "done"
    /\ UNCHANGED <<build, files, cmds, groups, cancelFuncs, mu, ctxDone,
                   children, childDone, wg, sched, pc, res, content, mainpc,
                   cursor, proc, nExec, nNotify, sink, tick, paginator, calls>>

NextTicker ==
    \/ ProcessFile
    \/ GoRunCommand
    \/ GoRefreshDisplay
    \/ Shutdown
    \/ WaitReturn
    \/ Exit
    \/ RefreshDisplayLock
    \/ RefreshDisplayUnlock
    \/ RefreshDisplayReturn
    \/ \E g \in Goroutines : RunCommand(g)
    \/ \E g \in Goroutines : TickerC(g)
    \/ \E g \in Goroutines : RunCommandSelect(g)
    \/ \E g \in Goroutines : StartCmd(g)
    \/ \E g \in Goroutines : FinishCmd(g)
    \/ \E g \in Goroutines : Lock(g)
    \/ \E g \in Goroutines : ExecuteCommandUpdate(g)

\* Scheduling of the ticker-driven program: every runnable goroutine runs, a
\* started command ends, a goroutine blocked in mu.Lock() gets the mutex,
\* and RefreshDisplay releases the mutex it took.
TickerStep(g) ==
    /\ g \in Goroutines
    /\ \/ RunCommand(g)
       \/ RunCommandSelect(g)
       \/ StartCmd(g)
       \/ FinishCmd(g)
       \/ ExecuteCommandUpdate(g)

FairnessTicker ==
    /\ \A g \in 1..MaxJobs :
           /\ WF_vars(TickerStep(g))
           /\ SF_vars(g \in Goroutines /\ Lock(g))
    /\ WF_vars(RefreshDisplayUnlock)
    /\ WF_vars(ProcessFile \/ GoRunCommand \/ GoRefreshDisplay
                  \/ WaitReturn \/ Exit)

SpecTicker == InitTicker /\ [][NextTicker]_vars /\ FairnessTicker

\* C28: in RunCommand, once the context is cancelled a repeating command
\* starts no further executeCommand, whatever the select finds ready: no
\* goroutine of a repeating command goes from the select into executeCommand
\* while the context is cancelled; and the wait group counts exactly the
\* goroutines that have not returned, each return marking it done once.
C28_NoRunAfterCancel ==
    /\ [][\A g \in Goroutines :
              (ctxDone /\ Repeating(g) /\ pc[g] = "select")
                  => (pc'[g] # "exec")]_vars
    /\ [](wg = Cardinality({g \in Goroutines : pc[g] # "exited"}))

(***************************************************************************)
(* The message-driven program (cmd/onepage/main.go, the bubbletea model):  *)
(* m.jobs is cmds, every tea.Cmd runs in a goroutine of its own and its    *)
(* jobUpdateMsg waits in pc "msg" until Update takes it.                   *)
(***************************************************************************)
\* commands, err := loadCommands(os.Args[1]): one file
InitTea == \E c \in Configs : Len(c) = 1 /\ Start("tea", c)

\* jobs = append(jobs, Job{Name, Command, Repeat, Status: "Pending"})
NewJob(c) == [c EXCEPT !.Status = "Pending"]

\* main: the commands are converted to jobs
NewJobs ==
    /\ Alive
    /\ build = "tea"
    /\ mainpc = "load"
    /\ cmds' = [i \in DOMAIN cmds |-> NewJob(cmds[i])]
    /\ mainpc' = "start"
    /\ UNCHANGED <<build, files, groups, cancelFuncs, mu, ctxDone, children,
                   childDone, wg, sched, pc, res, content, cursor, uipc, proc,
                   nExec, nNotify, sink, tick, paginator, calls>>

\* a tea.Cmd made by runJob(index, job): the goroutine holds index and the
\* copy of the Job it was given
RunJobCmd(index, job) ==
    [cmd |-> index, job |-> job, file |-> 1, group |-> 0, pane |-> 0]

\* p.Start() and model.Init: tea.Batch of runJob(i, m.jobs[i]) for every job,
\* each started in its own goroutine
ModelInit ==
    /\ Alive
    /\ mainpc = "start"
    /\ sched' = [i \in DOMAIN cmds |-> RunJobCmd(i, cmds[i])]
    /\ pc' = [i \in DOMAIN cmds |-> "exec"]
    /\ res' = [i \in DOMAIN cmds |-> NoResult]
    /\ nExec' = [i \in DOMAIN cmds |-> 0]
    /\ mainpc' = "run"
    /\ uipc' = "run"
    /\ UNCHANGED <<build, files, cmds, groups, cancelFuncs, mu, ctxDone,
                   children, childDone, wg, content, cursor, proc, nNotify,
                   sink, tick, paginator, calls>>

\* the index and the Job a goroutine was given
IndexOf(g) == sched[g].cmd
JobOf(g) == sched[g].job

\* what cmd.Run() of sh -c job.Command can give: the empty command prints
\* nothing and exits with status 0
RunOf(command) ==
    IF command = <<>> THEN {[err |-> "nil", out |-> ""]} ELSE RunResults

\* runJob: cmd.Run() returns and the function returns its jobUpdateMsg, which
\* waits for the program's loop
RunJobReturn(g) ==
    /\ Alive
    /\ build = "tea"
    /\ pc[g] = "running"
    /\ \E r \in RunOf(JobOf(g).Command) : res' = [res EXCEPT ![g] = r]
    /\ pc' = [pc EXCEPT ![g] = "msg"]
    /\ UNCHANGED <<build, files, cmds, groups, cancelFuncs, mu, ctxDone,
                   children, childDone, wg, sched, content, mainpc, cursor,
                   uipc, proc, nExec, nNotify, sink, tick, paginator, calls>>

\* jobUpdateMsg{Index, Output, Status, IsCron: job.Repeat > 0, NextRun}:
\* NextRun is the end of the run, Repeat seconds later for a repeating job
JobUpdateMsg(g) ==
    [Index |-> IndexOf(g),
     Output |-> res[g].out,
     Status |-> StatusOf(res[g].err),
     IsCron |-> JobOf(g).Repeat > 0,
     NextRun |-> IF JobOf(g).Repeat > 0 THEN "later" ELSE "now"]

\* msg.NextRun.After(time.Now()) when Update handles the message: false for
\* the end of the run itself; for a later time it is true unless the message
\* was handled more than the interval after the run
After(nextRun) == IF nextRun = "now" THEN {FALSE} ELSE BOOLEAN

\* scheduleJob(index, nextRun): the tea.Cmd that sleeps and then calls
\* runJob(index, Job{Name: "", Command: ""}); the empty strings are <<>>, as
\* names and commands are tuples
ScheduleJobCmd(index) ==
    RunJobCmd(index, [Name |-> <<>>, Command |-> <<>>, Repeat |-> 0,
                      Output |-> "", Status |-> "", IsRunning |-> FALSE])

\* model.Update, case jobUpdateMsg: the job's fields are set from the
\* message and, for a message with IsCron and a NextRun still ahead, the
\* next run is scheduled
ModelUpdate(g) ==
    /\ Alive
    /\ uipc = "run"
    /\ pc[g] = "msg"
    /\ LET msg == JobUpdateMsg(g)
       IN  /\ cmds' = [cmds EXCEPT ![msg.Index] =
                          [@ EXCEPT !.Output = msg.Output,
                                    !.Status = msg.Status,
                                    !.IsRunning = FALSE]]
           /\ \E after \in After(msg.NextRun) :
                  IF msg.IsCron /\ after
                  THEN /\ sched' = Append(sched, ScheduleJobCmd(msg.Index))
                       /\ pc' = Append([pc EXCEPT ![g] = "exited"], "sleep")
                       /\ res' = Append([res EXCEPT ![g] = NoResult], NoResult)
                       /\ nExec' = Append(nExec, 0)
                  ELSE /\ sched' = sched
                       /\ pc' = [pc EXCEPT ![g] = "exited"]
                       /\ res' = [res EXCEPT ![g] = NoResult]
                       /\ nExec' = nExec
    /\ UNCHANGED <<build, files, groups, cancelFuncs, mu, ctxDone, children,
                   childDone, wg, content, mainpc, cursor, uipc, proc,
                   nNotify, sink, tick, paginator, calls>>

\* scheduleJob: time.Sleep(time.Until(nextRun)) returns and runJob is called
ScheduleJob(g) ==
    /\ Alive
    /\ build = "tea"
    /\ pc[g] = "sleep"
    /\ pc' = [pc EXCEPT ![g] = "exec"]
    /\ UNCHANGED <<build, files, cmds, groups, cancelFuncs, mu, ctxDone,
                   children, childDone, wg, sched, res, content, mainpc,
                   cursor, uipc, proc, nExec, nNotify, sink, tick, paginator,
                   calls>>

\* model.Update, case tea.KeyMsg "q": tea.Quit; p.Start() returns and main
\* with it
TeaQuit ==
    /\ Alive
    /\ build = "tea"
    /\ uipc = "run"
    /\ uipc' = "done"
    /\ mainpc' = "returned"
    /\ proc' = "exited"
    /\ UNCHANGED <<build, files, cmds, groups, cancelFuncs, mu, ctxDone,
                   children, childDone, wg, sched, pc, res, content, cursor,
                   nExec, nNotify, sink, tick, paginator, calls>>

NextTea ==
    \/ NewJobs
    \/ ModelInit
    \/ TeaQuit
    \/ \E g \in Goroutines : StartCmd(g)
    \/ \E g \in Goroutines : RunJobReturn(g)
    \/ \E g \in Goroutines : ModelUpdate(g)
    \/ \E g \in Goroutines : ScheduleJob(g)

SpecTea == InitTea /\ [][NextTea]_vars

\* C29: in the message-driven program every run of job i, the scheduled
\* re-runs included, executes the command configured for job i and reports
\* IsCron exactly when job i repeats; and every job-update message of a
\* repeating job that arrives before its NextRun schedules another run.
C29_ReRunsOwnCommand ==
    /\ [](\A g \in Goroutines :
              pc[g] \in {"exec", "running", "msg"}
                  => /\ JobOf(g).Command = cmds[IndexOf(g)].Command
                     /\ pc[g] = "msg"
                            => (JobUpdateMsg(g).IsCron
                                    <=> cmds[IndexOf(g)].Repeat > 0))
    /\ [][\A g \in Goroutines :
              (pc[g] = "msg" /\ pc'[g] = "exited"
                   /\ cmds[IndexOf(g)].Repeat > 0)
                  => \/ Len(sched') = Len(sched) + 1
                     \/ FALSE \in After(JobUpdateMsg(g).NextRun)]_vars

(***************************************************************************)
(* The content handed to the TUI.                                          *)
(***************************************************************************)
\* the goroutine is between the start of a run and the update queued for it
InFlight(g) == pc[g] \in {"running", "lock", "write", "notify"}

\* C31: the content a goroutine hands to QueueUpdateDraw is the rendering of
\* its command's fields as the critical section of that iteration left them;
\* outside an iteration the last content handed over is still the rendering
\* of the command's fields; and there is one update per execution, queued
\* before the next execution starts: the updates never run ahead of the
\* executions and never fall more than the execution in flight behind.
C31_ContentIsSnapshot ==
    \A g \in Goroutines :
        /\ pc[g] = "notify" => content[g] = Sprintf(cmds[CmdOf(g)])
        /\ ~InFlight(g) /\ nNotify[g] >= 1 =>
               sink[g] = Sprintf(cmds[CmdOf(g)])
        /\ ~InFlight(g) => nNotify[g] = nExec[g]
        /\ InFlight(g) =>
               /\ nExec[g] >= 1
               /\ nNotify[g] <= nExec[g]
               /\ nNotify[g] = nExec[g] - 1 \/ nExec[g] = MaxRuns

\* C31 witness: a repeating command is about to queue the update of its
\* second run, which failed, after the update of the first, which did not.
C31_Witness ==
    \E g \in Goroutines :
        /\ pc[g] = "notify"
        /\ nExec[g] = 2
        /\ nNotify[g] = 1
        /\ cmds[CmdOf(g)].Status = "exit status 1"
        /\ sink[g] # <<>>
        /\ sink[g] # content[g]
        /\ sink[g][4] = "Completed"

(***************************************************************************)
(* The mutex.                                                              *)
(***************************************************************************)
\* the steps of a goroutine that do not depend on its command: a command
\* that was started may run for any time, or for ever
OwnStep(g) ==
    /\ g \in Goroutines
    /\ \/ Select(g)
       \/ StartCmd(g)
       \/ Write(g)
       \/ Notify(g)
       \/ Wake(g)

\* Scheduling without any assumption on the commands: every runnable
\* goroutine runs and a goroutine blocked in mu.Lock() gets the mutex, but
\* execCmd.Run() need not return.
FairnessLongRun ==
    \A g \in 1..MaxJobs :
        /\ WF_vars(OwnStep(g))
        /\ SF_vars(g \in Goroutines /\ Lock(g))

LongRunSpec == Init /\ [][Next]_vars /\ FairnessLongRun

\* C32: the mutex of a file is held only by a goroutine of that file inside
\* its critical section after a run: not during a run, in the sleep, in the
\* update or after the return; so a goroutine that waits in mu.Lock() gets
\* the mutex while the process lives, however long the commands of the
\* other goroutines run, also when they never end.
C32_LockForWriteOnly ==
    /\ [](\A f \in DOMAIN mu :
              mu[f] # 0 =>
                  /\ mu[f] \in Goroutines
                  /\ MuOf(mu[f]) = f
                  /\ pc[mu[f]] = "write")
    /\ \A g \in 1..MaxJobs :
           (g \in Goroutines /\ pc[g] = "lock")
               ~> ((g \in Goroutines /\ pc[g] = "write") \/ ~Alive)

\* C32 witness: a goroutine holds the mutex for the write of its second run
\* while the command of another goroutine of the same file is executing, and
\* that goroutine has held the mutex before.
C32_Witness ==
    \E g, h \in Goroutines :
        /\ g # h
        /\ MuOf(g) = MuOf(h)
        /\ pc[h] = "running"
        /\ nNotify[h] >= 1
        /\ pc[g] = "write"
        /\ mu[MuOf(g)] = g
        /\ nExec[g] = 2

(***************************************************************************)
(* The paginator taken alone: any number of pages, next and prev called    *)
(* from several goroutines.                                                *)
(***************************************************************************)
\* cursor := newPaginator(int32(len(files))) for one to MaxTotal files
InitPaginator ==
    \E n \in 1..MaxTotal : Start("main.go", [f \in 1..n |-> <<>>])

\* the calls of op that are completed or under way
Called(op) ==
    (IF op = "next" THEN calls.next ELSE calls.prev)
        + Cardinality({t \in Callers : calls.at[t] \in {op, op \o " stored"}})

\* mutant: next and prev without p.mu.Lock()
PaginatorMuFreeAlways(p) == TRUE

\* p.mu.Lock() blocks while the mutex is held
PaginatorMuFree(p) == p.mu = 0

\* p.mu.Lock() at the entry of next or prev
PaginatorLock(t, op) ==
    /\ calls.at[t] = "idle"
    /\ Called(op) < MaxCalls
    /\ PaginatorMuFree(paginator)
    /\ paginator' = [paginator EXCEPT !.mu = t]
    /\ calls' = [calls EXCEPT !.at[t] = op]
    /\ UNCHANGED <<build, files, cmds, groups, cancelFuncs, mu, ctxDone,
                   children, childDone, wg, sched, pc, res, content, mainpc,
                   cursor, uipc, proc, nExec, nNotify, sink, tick>>

\* the right-hand side of the assignment is evaluated: p.current is read
PaginatorLoad(t) ==
    /\ calls.at[t] \in {"next", "prev"}
    /\ calls' = [calls EXCEPT
                    !.val[t] = IF calls.at[t] = "next"
                               THEN next(paginator).current
                               ELSE prev(paginator).current,
                    !.at[t] = IF calls.at[t] = "next"
                              THEN "next stored" ELSE "prev stored"]
    /\ UNCHANGED <<build, files, cmds, groups, cancelFuncs, mu, ctxDone,
                   children, childDone, wg, sched, pc, res, content, mainpc,
                   cursor, uipc, proc, nExec, nNotify, sink, tick, paginator>>

\* p.current is assigned, the value is returned and the deferred
\* p.mu.Unlock() runs
PaginatorStore(t) ==
    /\ calls.at[t] \in {"next stored", "prev stored"}
    /\ paginator' = [paginator EXCEPT !.current = calls.val[t], !.mu = 0]
    /\ calls' = [calls EXCEPT
                    !.at[t] = "idle",
                    !.val[t] = 0,
                    !.next = IF calls.at[t] = "next stored" THEN @ + 1 ELSE @,
                    !.prev = IF calls.at[t] = "prev stored" THEN @ + 1 ELSE @]
    /\ UNCHANGED <<build, files, cmds, groups, cancelFuncs, mu, ctxDone,
                   children, childDone, wg, sched, pc, res, content, mainpc,
                   cursor, uipc, proc, nExec, nNotify, sink, tick>>

NextPaginator ==
    \/ \E t \in Callers : PaginatorLock(t, "next")
    \/ \E t \in Callers : PaginatorLock(t, "prev")
    \/ \E t \in Callers : PaginatorLoad(t)
    \/ \E t \in Callers : PaginatorStore(t)

SpecPaginator == InitPaginator /\ [][NextPaginator]_vars

\* C33: for a paginator over total >= 1 pages, whatever calls of next and
\* prev were made and from whichever goroutines, the current page is one of
\* 0..total-1 and is the number of completed next calls minus the number of
\* completed prev calls, modulo total; from the current page next goes to
\* the following page and from the last to the first, prev goes to the page
\* before and from the first to the last, and prev after next gives the
\* current page again.
C33_PageIsNetCalls ==
    LET total == paginator.total
        current == paginator.current
    IN  /\ total >= 1
        /\ current \in 0..(total - 1)
        /\ current = (calls.next - calls.prev) % total
        /\ next(paginator).current =
               IF current = total - 1 THEN 0 ELSE current + 1
        /\ prev(paginator).current =
               IF current = 0 THEN total - 1 ELSE current - 1
        /\ prev(next(paginator)) = paginator
        /\ next(prev(paginator)) = paginator

\* C33 witness: of three pages, after one more prev than next from two
\* callers the first page gave way to the last, and a caller inside next
\* is about to store the first page again while the other waits.
C33_Witness ==
    /\ paginator.total = 3
    /\ paginator.current = 2
    /\ calls.prev = 2
    /\ calls.next = 1
    /\ calls.at[1] = "next stored"
    /\ calls.val[1] = 0
    /\ paginator.mu = 1
    /\ calls.at[2] = "idle"


====
